---- MODULE Spec2Model ----
(***************************************************************************)
(* Live signal monitoring of autrado-bot: SignalDetector, RealTimeMonitor  *)
(* (src/live_trading/real_time_signal_example.py) and MonitoringStorage    *)
(* (src/utils/monitoring_storage.py).                                      *)
(***************************************************************************)
EXTENDS Integers, Sequences, FiniteSets, TLC

\* ------------------------------------------------------------------------
\* Bounds of the model
\* ------------------------------------------------------------------------
MaxCalls == 5      \* check_signal calls recorded for a stand-alone detector
MaxCycles == 2     \* check cycles started by the monitoring loop
MaxStore == 2      \* records a store may hold before add is no longer tried

\* ------------------------------------------------------------------------
\* Values
\* ------------------------------------------------------------------------
\* pandas NaN: every ordered comparison with it is False
NaN == -1

\* get_signal_state answers HOLD below this many rows
MinBars == 100

\* RSIStrategy.rsi_upper / rsi_lower class attributes
RsiUpper == 70
RsiLower == 30

\* time.sleep(60) in the loop's exception handler
RecoverySleep == 60

None == "None"

GT(a, b) == a # NaN /\ b # NaN /\ a > b
LT(a, b) == a # NaN /\ b # NaN /\ a < b
GE(a, b) == a # NaN /\ b # NaN /\ a >= b
LE(a, b) == a # NaN /\ b # NaN /\ a <= b

\* Class attributes the detector looks up with hasattr() and reads, as
\* SignalDetector.__init__ leaves them: TrendFollowing and RSIStrategy with
\* the params of CONFIG['strategies'], GoldenCrossStrategy with its defaults
StrategyClass(name) ==
    IF name = "TrendFollowing"
    THEN [short_ma |-> 20, long_ma |-> 50]
    ELSE IF name = "GoldenCrossStrategy"
    THEN [short_ma |-> 50, long_ma |-> 200]
    ELSE [rsi_period |-> 14, rsi_upper |-> RsiUpper, rsi_lower |-> RsiLower]

StrategyNames == <<"TrendFollowing", "RSIStrategy">>

HasAttr(cls, a) == a \in DOMAIN cls

\* A data window as the detector sees it: row count, whether the Close and
\* Volume columns exist, the means of the rows under the last two positions
\* of the two rolling windows (NaN when a Close among them is NaN) and the
\* last RSI value.
RsiVals == {NaN, 20, 50, 80}

Window(n, hc, hv, sp, lp, sl, ll, r) ==
    [n |-> n, has_close |-> hc, has_volume |-> hv,
     short_prev |-> sp, long_prev |-> lp, short_last |-> sl, long_last |-> ll,
     rsi |-> r]

\* Windows fed to a stand-alone detector: full-length windows over the
\* rolling means with a neutral RSI, over the RSI with level means, and one
\* window one row short of MinBars, one without a Close column, one whose
\* long mean is still NaN.
DetectorWindows ==
    { Window(MinBars, TRUE, TRUE, sp, 2, sl, 2, 50) :
        sp \in {NaN, 1, 2, 3}, sl \in {NaN, 1, 3} }
    \cup { Window(MinBars, TRUE, TRUE, 2, 2, 2, 2, r) : r \in RsiVals }
    \cup { Window(MinBars - 1, TRUE, TRUE, 1, 2, 3, 2, 20),
           Window(MinBars, FALSE, TRUE, 1, 2, 3, 2, 20),
           Window(MinBars, TRUE, TRUE, 1, NaN, 3, 2, 80) }

\* ------------------------------------------------------------------------
\* SignalDetector
\* ------------------------------------------------------------------------
\* rolling(period).mean() that averages whatever rows there are
rolling_mean_iloc_partial(data, period, back, mean) == mean

\* data['Close'].rolling(period).mean().iloc[-1 - back]: NaN until the
\* window holds period rows
rolling_mean_iloc(data, period, back, mean) ==
    IF data.n - back < period THEN NaN ELSE mean

\* get_signal_state whose try block catches nothing: a frame without a
\* Close column is read as if it had one
get_signal_state_uncaught(cls, data) ==
    LET short_last == rolling_mean_iloc(data, cls.short_ma, 0, data.short_last)
        short_prev == rolling_mean_iloc(data, cls.short_ma, 1, data.short_prev)
        long_last == rolling_mean_iloc(data, cls.long_ma, 0, data.long_last)
        long_prev == rolling_mean_iloc(data, cls.long_ma, 1, data.long_prev)
    IN
    IF data.n < MinBars THEN "HOLD"
    ELSE IF HasAttr(cls, "short_ma") /\ HasAttr(cls, "long_ma")
            /\ GT(short_last, long_last)
            /\ LE(short_prev, long_prev) THEN "BUY"
    ELSE IF HasAttr(cls, "short_ma") /\ HasAttr(cls, "long_ma")
            /\ LT(short_last, long_last)
            /\ GE(short_prev, long_prev) THEN "SELL"
    ELSE IF HasAttr(cls, "rsi_upper") /\ HasAttr(cls, "rsi_lower")
            /\ LT(data.rsi, cls.rsi_lower) THEN "BUY"
    ELSE IF HasAttr(cls, "rsi_upper") /\ HasAttr(cls, "rsi_lower")
            /\ GT(data.rsi, cls.rsi_upper) THEN "SELL"
    ELSE "HOLD"

get_signal_state(cls, data) ==
    LET short_last == rolling_mean_iloc(data, cls.short_ma, 0, data.short_last)
        short_prev == rolling_mean_iloc(data, cls.short_ma, 1, data.short_prev)
        long_last == rolling_mean_iloc(data, cls.long_ma, 0, data.long_last)
        long_prev == rolling_mean_iloc(data, cls.long_ma, 1, data.long_prev)
    IN
    IF data.n < MinBars THEN "HOLD"
    ELSE IF ~data.has_close THEN "HOLD"      \* KeyError caught, logged
    ELSE IF HasAttr(cls, "short_ma") /\ HasAttr(cls, "long_ma")
            /\ GT(short_last, long_last)
            /\ LE(short_prev, long_prev) THEN "BUY"
    ELSE IF HasAttr(cls, "short_ma") /\ HasAttr(cls, "long_ma")
            /\ LT(short_last, long_last)
            /\ GE(short_prev, long_prev) THEN "SELL"
    ELSE IF HasAttr(cls, "rsi_upper") /\ HasAttr(cls, "rsi_lower")
            /\ LT(data.rsi, cls.rsi_lower) THEN "BUY"
    ELSE IF HasAttr(cls, "rsi_upper") /\ HasAttr(cls, "rsi_lower")
            /\ GT(data.rsi, cls.rsi_upper) THEN "SELL"
    ELSE "HOLD"

\* 0.5 when the computation raises, the volume/trend heuristic otherwise
calculate_confidence(data) ==
    IF data.has_volume THEN "heuristic" ELSE "default"

NoEvent == [action |-> None, confidence |-> None]

\* SignalChanged without the HOLD test: any change builds an event
SignalChanged_anyChange(current_signal, last) ==
    current_signal # last

\* line 84: the condition under which check_signal builds an event
SignalChanged(current_signal, last) ==
    current_signal # last /\ current_signal # "HOLD"

\* check_signal that never stores the signal it reported
check_signal_forgets(last, cls, data) ==
    LET current_signal == get_signal_state(cls, data) IN
    IF SignalChanged(current_signal, last)
    THEN [event |-> [action |-> current_signal,
                     confidence |-> calculate_confidence(data)],
          last_signal |-> last,
          computed |-> current_signal]
    ELSE [event |-> NoEvent, last_signal |-> last,
          computed |-> current_signal]

\* lines 78-98: the event (None when there is none), the new last_signal and
\* the signal that was computed
check_signal(last, cls, data) ==
    LET current_signal == get_signal_state(cls, data) IN
    IF SignalChanged(current_signal, last)
    THEN [event |-> [action |-> current_signal,
                     confidence |-> calculate_confidence(data)],
          last_signal |-> current_signal,
          computed |-> current_signal]
    ELSE [event |-> NoEvent, last_signal |-> last,
          computed |-> current_signal]

\* ------------------------------------------------------------------------
\* RealTimeMonitor: construction parameters
\* ------------------------------------------------------------------------
Tickers == <<"AAPL", "TSLA">>
AlertSystems == <<"email", "telegram">>
StrategySet == {StrategyNames[i] : i \in 1..Len(StrategyNames)}

\* Classes a stand-alone detector is built on
DetectorClasses == StrategySet \cup {"GoldenCrossStrategy"}
TickerSet == {Tickers[i] : i \in 1..Len(Tickers)}

\* Config.UPDATE_INTERVAL default
UpdateInterval == 300

\* Intervals a monitor may be built with; time.sleep() rejects a negative one
Intervals == {UpdateInterval, -5}

\* What get_latest_data returns when yf.download raises (None), and an
\* empty frame
NoData == [n |-> -1, has_close |-> FALSE, has_volume |-> FALSE,
           short_prev |-> NaN, long_prev |-> NaN, short_last |-> NaN,
           long_last |-> NaN, rsi |-> NaN]
EmptyFrame == [NoData EXCEPT !.n = 0]

\* Frames yf.download can hand to the monitor
MonitorWindows ==
    { Window(MinBars, TRUE, TRUE, 1, 2, 3, 2, 50),     \* MA up-cross
      Window(MinBars, TRUE, TRUE, 3, 2, 1, 2, 20),     \* MA down-cross, RSI low
      Window(MinBars, TRUE, FALSE, 1, 2, 1, 2, 80),    \* RSI high, no Volume
      Window(MinBars, FALSE, TRUE, 1, 2, 3, 2, 20),    \* no Close column
      Window(MinBars, TRUE, TRUE, NaN, 2, 3, 2, NaN) } \* NaN mean and RSI

get_latest_data(raises, frame) ==
    IF raises THEN NoData ELSE frame

\* line 272: data is None or data.empty
Unusable(d) == d = NoData \/ d.n = 0

\* ------------------------------------------------------------------------
\* Backtest runs and detectors that configure a strategy class: values
\* ------------------------------------------------------------------------
\* TrendFollowing.short_ma / long_ma as the class is defined
ClassDefaults == [short_ma |-> 50, long_ma |-> 200]

\* STRATEGIES["TrendFollowing"]["params"]: the declared bounds
ParamRanges ==
    [short_ma |-> [min |-> 5, max |-> 100],
     long_ma |-> [min |-> 50, max |-> 300]]

\* Parameter values a caller may pass: the defaults, the pair of the
\* monitoring example, a short period of 0 and a long period of 400
ParamChoices ==
    { ClassDefaults,
      [short_ma |-> 20, long_ma |-> 50],
      [short_ma |-> 0, long_ma |-> 200],
      [short_ma |-> 50, long_ma |-> 400] }

\* base.py 39-56: one error per bound a value violates
validate_params(param_ranges, params) ==
    { <<k, "min">> : k \in { j \in DOMAIN params \cap DOMAIN param_ranges :
                                params[j] < param_ranges[j].min } }
    \cup
    { <<k, "max">> : k \in { j \in DOMAIN params \cap DOMAIN param_ranges :
                                params[j] > param_ranges[j].max } }

\* st.number_input(min_value=..., max_value=...) hands the page a value inside
\* the declared bounds
number_input(param_ranges) ==
    { p \in ParamChoices :
        \A k \in DOMAIN p :
            p[k] >= param_ranges[k].min /\ p[k] <= param_ranges[k].max }

\* Where a run comes from: the Backtesting page, BacktestingBot.run_backtest,
\* or the construction of a SignalDetector
Entries == {"page", "bot", "detector"}

\* Values a caller can hand to an entry point
ParamsOf(entry) ==
    IF entry = "page" THEN number_input(ParamRanges) ELSE ParamChoices

Runs == {"A", "B"}

NoStats == [returned |-> FALSE, trades |-> 0]

IdleRun == [entry |-> None, params |-> ClassDefaults, pc |-> "idle",
            fetch |-> None, data |-> NoData, configured |-> FALSE,
            used |-> ClassDefaults, stats |-> NoStats]

\* What yf.download can do: raise, or hand back a frame
Fetches == {"raised", "empty", "rows"}

\* A frame with rows, as yf.download returns it
SomeRows == Window(MinBars, TRUE, TRUE, 1, 2, 3, 2, 50)

yf_download(fetch) ==
    IF fetch = "rows" THEN SomeRows ELSE EmptyFrame

\* download_data that hands an empty frame through
download_data_passes(fetch) ==
    IF fetch = "raised" THEN NoData ELSE yf_download(fetch)

\* data_provider.py 73-100: None when the fetch raises or has no rows
download_data(fetch) ==
    IF fetch = "raised" THEN NoData
    ELSE IF yf_download(fetch).n = 0 THEN NoData
    ELSE yf_download(fetch)

\* ------------------------------------------------------------------------
\* Backtest(data, strategy, cash, commission).run(): values
\* ------------------------------------------------------------------------
NoOrders == [close |-> FALSE, entry |-> None]
NoFill == [placed |-> NoOrders, price |-> 0, before |-> 0, after |-> 0]
NoSeries == [closes |-> <<>>, wick |-> 0]


VARIABLES
    last_signal,     \* signal_detectors[name].last_signal
    calls,           \* history: check_signal calls of the stand-alone detector
    rows,            \* len(data) of the latest of those calls
    update_interval, \* self.update_interval
    pc,              \* where the monitoring loop stands
    cycle,           \* check cycles started so far
    tIdx,            \* position of the for loop over self.tickers
    dIdx,            \* position of the loop over self.signal_detectors
    aIdx,            \* position of the loop over self.alert_systems
    data,            \* the frame fetched for the current ticker
    signals,         \* the signals dict of check_signals_for_ticker
    slept,           \* length of the last completed time.sleep()
    single,          \* the cycle under way is a direct run_single_check() call
    pause,           \* history: the sleeps completed since the last cycle began
    cancelRequested, \* history: a termination signal has been delivered
    cycleRaised,     \* history: the loop's except Exception handler ran
    attempted,       \* history: tickers whose check was started this cycle
    failed,          \* history: tickers with a failure this cycle
    found,           \* history: tickers with a non-empty signals dict
    alerted,         \* history: tickers for which send_alerts returned
    tried,           \* history: transports attempted by the last send_alerts
    pairLast,        \* history: last action emitted per (ticker, strategy)
    lastCheck,       \* history: the last check_signal call of the monitor
    store,           \* the records in the storage file, in file order
    edits,           \* history: edits made beside a running monitor
    storeAtStart,    \* history: the store as it was when the cycle started
    checkedPairs,    \* history: (ticker, strategy) pairs checked this cycle
    clicked,         \* history: the clicks on the page's "Add to Monitoring"
    session,         \* per browser session: st.session_state.monitoring_list
    added,           \* history: keys add_monitoring_config added, not removed
    live,            \* how the run_live_monitoring call went
    raw_ticker,      \* the ticker handed to normalize_ticker
    normalized,      \* what normalize_ticker returned, call after call
    class_params,    \* the attributes set on the shared strategy class
    run,             \* per run: entry point, parameters, progress, result
    strategy_class,  \* the strategy class handed to Backtest()
    series,          \* the bars handed to Backtest()
    cash,            \* _Broker._cash
    trades,          \* _Broker.trades, the open trades in opening order
    orders,          \* what the last Strategy.next() placed
    bar,             \* index of the next bar of Backtest.run()'s loop
    decisions,       \* history: what next() asked for at each bar so far
    filled           \* history: the orders the last broker step processed

monitorVars == <<update_interval, pc, cycle, tIdx, dIdx, aIdx, data, signals,
                 slept, cancelRequested, cycleRaised, attempted, failed, found,
                 alerted, tried, pairLast, lastCheck, storeAtStart,
                 checkedPairs, single, pause>>
runVars == <<class_params, run>>
backtestVars == <<strategy_class, series, cash, trades, orders, bar, decisions,
                  filled>>
pageVars == <<clicked>>
deskVars == <<session, added, live>>
tickerVars == <<raw_ticker, normalized>>
sideVars == <<deskVars, tickerVars>>
offlineVars == <<runVars, backtestVars, pageVars, sideVars>>
callVars == <<calls, rows>>
vars == <<last_signal, callVars, monitorVars, store, edits, offlineVars>>

NoSignals == [s \in StrategySet |-> NoEvent]
NoCheck == [ticker |-> None, strategy |-> None, computed |-> None,
            emitted |-> FALSE, pairBefore |-> None]

InitMonitor ==
    /\ last_signal = [s \in DetectorClasses |-> None]
    /\ calls = <<>>
    /\ rows = 0
    /\ update_interval \in Intervals
    /\ pc = "loop"
    /\ cycle = 0
    /\ tIdx = 1
    /\ dIdx = 1
    /\ aIdx = 1
    /\ data = NoData
    /\ signals = NoSignals
    /\ slept = 0
    /\ single = FALSE
    /\ pause = <<>>
    /\ cancelRequested = FALSE
    /\ cycleRaised = FALSE
    /\ attempted = {}
    /\ failed = {}
    /\ found = {}
    /\ alerted = {}
    /\ tried = {}
    /\ pairLast = [p \in TickerSet \X StrategySet |-> None]
    /\ lastCheck = NoCheck
    /\ storeAtStart = <<>>
    /\ checkedPairs = {}
    /\ edits = 0

\* MonitoringStorage.__init__: ensure_storage_exists writes an empty list
\* No run has been started
IdleRuns ==
    /\ clicked = {}
    /\ class_params = ClassDefaults
    /\ run = [r \in Runs |-> IdleRun]

\* No Backtest has been built
IdleBacktest ==
    /\ strategy_class = None
    /\ series = NoSeries
    /\ cash = 0
    /\ trades = <<>>
    /\ orders = NoOrders
    /\ bar = 0
    /\ decisions = <<>>
    /\ filled = NoFill

\* Browser sessions with the Monitoring Dashboard open
Sessions == {"tab1", "tab2"}

\* 'monitoring_list' not in st.session_state
NoCache == [cached |-> FALSE, list |-> <<>>]

\* run_live_monitoring has not been called
NotCalled == [outcome |-> "idle", active |-> 0, checks |-> 0]

\* No dashboard session has saved, the bot has not been started
IdleDesk ==
    /\ session = [s \in Sessions |-> NoCache]
    /\ added = {}
    /\ live = NotCalled

\* normalize_ticker has not been called
NoTicker ==
    /\ raw_ticker = <<>>
    /\ normalized = <<>>

Init ==
    /\ InitMonitor
    /\ store = <<>>
    /\ IdleRuns
    /\ IdleBacktest
    /\ IdleDesk
    /\ NoTicker

\* ------------------------------------------------------------------------
\* A stand-alone SignalDetector
\* ------------------------------------------------------------------------
\* CheckSignal that stores whatever was computed, HOLD included
CheckSignal_storesComputed(s, d) ==
    /\ Len(calls) < MaxCalls
    /\ LET r == check_signal(last_signal[s], StrategyClass(s), d) IN
        /\ last_signal' = [last_signal EXCEPT ![s] = r.computed]
        /\ calls' = Append(calls, [strategy |-> s, signal |-> r.computed,
                                    before |-> last_signal[s],
                                    event |-> r.event])
        /\ rows' = d.n
    /\ UNCHANGED <<monitorVars, store, edits, offlineVars>>

CheckSignal(s, d) ==
    /\ Len(calls) < MaxCalls
    /\ LET r == check_signal(last_signal[s], StrategyClass(s), d) IN
        /\ last_signal' = [last_signal EXCEPT ![s] = r.last_signal]
        /\ calls' = Append(calls, [strategy |-> s, signal |-> r.computed,
                                    before |-> last_signal[s],
                                    event |-> r.event])
        /\ rows' = d.n
    /\ UNCHANGED <<monitorVars, store, edits, offlineVars>>

NextDetector ==
    \E s \in DetectorClasses, d \in DetectorWindows : CheckSignal(s, d)

SpecDetector == Init /\ [][NextDetector]_vars

\* ------------------------------------------------------------------------
\* RealTimeMonitor.run_continuous_monitoring and what it calls
\* ------------------------------------------------------------------------
AllTickers == 1..Len(Tickers)
AllTransports == 1..Len(AlertSystems)

\* next_ticker that stops one ticker early
next_ticker_short(i) ==
    IF i < Len(Tickers) - 1 THEN [pc |-> "fetch", tIdx |-> i + 1]
    ELSE [pc |-> "sleep", tIdx |-> i]

\* line 300: the for loop over self.tickers moves on, or the cycle is over
\* and time.sleep(self.update_interval) is next
next_ticker(i) ==
    IF i < Len(Tickers) THEN [pc |-> "fetch", tIdx |-> i + 1]
    ELSE [pc |-> "sleep", tIdx |-> i]

\* on_fetch_failure that leaves the for loop
on_fetch_failure_break(i) == [pc |-> "sleep", tIdx |-> i]

\* lines 272-273 and 304: no usable data, the signals dict is empty and the
\* for loop goes on
on_fetch_failure(i) == next_ticker(i)

\* after_transport without the try: a failing transport raises out of
\* send_alerts
after_transport_raises(a, ok) ==
    IF ~ok THEN "raise"
    ELSE IF a < Len(AlertSystems) THEN "next_transport" ELSE "return"

\* lines 290-294: the loop over the transports goes on whatever a transport did
after_transport(a, ok) ==
    IF a < Len(AlertSystems) THEN "next_transport" ELSE "return"

\* on_cycle_exception that lets the exception end the loop
on_cycle_exception_fatal == "stopped"

\* lines 326-328: except Exception in the while loop
on_cycle_exception == "recover"

GoTo(step) ==
    /\ pc' = step.pc
    /\ tIdx' = step.tIdx
    /\ dIdx' = 1
    /\ aIdx' = 1
    /\ data' = NoData
    /\ signals' = NoSignals

\* line 317-319: while True enters run_single_check
StartCycle ==
    /\ pc = "loop"
    /\ cycle < MaxCycles
    /\ cycle' = cycle + 1
    /\ GoTo([pc |-> "fetch", tIdx |-> 1])
    /\ cycleRaised' = FALSE
    /\ attempted' = {}
    /\ failed' = {}
    /\ found' = {}
    /\ alerted' = {}
    /\ storeAtStart' = store
    /\ checkedPairs' = {}
    /\ pause' = <<>>
    /\ UNCHANGED <<offlineVars, single,
                   store, edits, last_signal, callVars, update_interval, slept,
                   cancelRequested, tried, pairLast, lastCheck>>

\* lines 302, 271-275: check_signals_for_ticker fetches the ticker's data
FetchData(raises, frame) ==
    /\ pc = "fetch"
    /\ attempted' = attempted \cup {tIdx}
    /\ LET d == get_latest_data(raises, frame) IN
        IF Unusable(d)
        THEN /\ GoTo(on_fetch_failure(tIdx))
             /\ failed' = failed \cup {tIdx}
        ELSE /\ pc' = "detect"
             /\ data' = d
             /\ dIdx' = 1
             /\ signals' = NoSignals
             /\ UNCHANGED <<tIdx, aIdx, failed>>
    /\ UNCHANGED <<offlineVars, single, pause,
                   store, edits, storeAtStart, checkedPairs, last_signal,
                   callVars, update_interval, cycle, slept,
                   cancelRequested, cycleRaised, found, alerted, tried,
                   pairLast, lastCheck>>

\* lines 276-286, 304-306: after one detector, the next one; after the last,
\* send_alerts if the signals dict is not empty, else the next ticker
DetectorDone(newSignals) ==
    IF dIdx < Len(StrategyNames)
    THEN /\ pc' = "detect"
         /\ dIdx' = dIdx + 1
         /\ signals' = newSignals
         /\ UNCHANGED <<tIdx, aIdx, data, found, tried>>
    ELSE IF \E s \in StrategySet : newSignals[s] # NoEvent
    THEN /\ pc' = "alert"
         /\ aIdx' = 1
         /\ signals' = newSignals
         /\ found' = found \cup {tIdx}
         /\ tried' = {}
         /\ UNCHANGED <<tIdx, dIdx, data>>
    ELSE /\ GoTo(next_ticker(tIdx))
         /\ UNCHANGED <<found, tried>>

\* lines 278, 81-84: the detector computes the signal; with no event to
\* build check_signal returns None, else calculate_confidence is entered
Detect ==
    /\ pc = "detect"
    /\ LET s == StrategyNames[dIdx]
           t == Tickers[tIdx]
           r == check_signal(last_signal[s], StrategyClass(s), data) IN
        IF r.event = NoEvent
        THEN /\ lastCheck' = [ticker |-> t, strategy |-> s,
                              computed |-> r.computed, emitted |-> FALSE,
                              pairBefore |-> pairLast[<<t, s>>]]
             /\ failed' = IF data.has_close THEN failed ELSE failed \cup {tIdx}
             /\ checkedPairs' = checkedPairs \cup {<<t, s>>}
             /\ DetectorDone(signals)
        ELSE /\ pc' = "confidence"
             /\ UNCHANGED <<tIdx, dIdx, aIdx, data, signals, failed, found,
                            tried, lastCheck, checkedPairs>>
    /\ UNCHANGED <<offlineVars, single, pause,
                   store, edits, storeAtStart, last_signal, callVars,
                   update_interval, cycle, slept,
                   cancelRequested, cycleRaised, attempted, alerted, pairLast>>

\* lines 85-93, 279-281: the event is built, last_signal is set and the event
\* is stored under the strategy's name
EventBuilt(confidence) ==
    LET s == StrategyNames[dIdx]
        t == Tickers[tIdx]
        r == check_signal(last_signal[s], StrategyClass(s), data)
        ev == [r.event EXCEPT !.confidence = confidence] IN
    /\ last_signal' = [last_signal EXCEPT ![s] = r.last_signal]
    /\ lastCheck' = [ticker |-> t, strategy |-> s, computed |-> r.computed,
                     emitted |-> TRUE, pairBefore |-> pairLast[<<t, s>>]]
    /\ pairLast' = [pairLast EXCEPT ![<<t, s>>] = ev.action]
    /\ checkedPairs' = checkedPairs \cup {<<t, s>>}
    /\ DetectorDone([signals EXCEPT ![s] = ev])

\* lines 100-112: calculate_confidence returns
Confidence ==
    /\ pc = "confidence"
    /\ EventBuilt(calculate_confidence(data))
    /\ UNCHANGED <<offlineVars, single, pause,
                   store, edits, storeAtStart, callVars, update_interval, cycle,
                   slept, cancelRequested,
                   cycleRaised, attempted, failed, alerted>>

\* lines 288-294, 306-309: one transport is tried
SendAlert(ok) ==
    /\ pc = "alert"
    /\ tried' = tried \cup {aIdx}
    /\ LET nxt == after_transport(aIdx, ok) IN
        /\ failed' = IF ok THEN failed ELSE failed \cup {tIdx}
        /\ IF nxt = "next_transport"
           THEN /\ aIdx' = aIdx + 1
                /\ UNCHANGED <<pc, tIdx, dIdx, data, signals, alerted>>
           ELSE /\ GoTo(next_ticker(tIdx))
                /\ alerted' = IF nxt = "return" THEN alerted \cup {tIdx}
                              ELSE alerted
    /\ UNCHANGED <<offlineVars, single, pause,
                   store, edits, storeAtStart, checkedPairs, last_signal,
                   callVars, update_interval, cycle, slept,
                   cancelRequested, cycleRaised, attempted, found, pairLast,
                   lastCheck>>

\* lines 320-321, 326-327: time.sleep(self.update_interval); a negative
\* interval makes it raise ValueError
SleepInterval ==
    /\ pc = "sleep"
    /\ ~single
    /\ IF update_interval >= 0
       THEN /\ pc' = "loop"
            /\ slept' = update_interval
            /\ pause' = Append(pause, update_interval)
            /\ UNCHANGED cycleRaised
       ELSE /\ pc' = on_cycle_exception
            /\ cycleRaised' = TRUE
            /\ UNCHANGED <<slept, pause>>
    /\ UNCHANGED <<offlineVars, single,
                   store, edits, storeAtStart, checkedPairs, last_signal,
                   callVars, update_interval, cycle, tIdx, dIdx,
                   aIdx, data, signals, cancelRequested, attempted, failed,
                   found, alerted, tried, pairLast, lastCheck>>

\* line 328: time.sleep(60), then the while loop goes round
Recover ==
    /\ pc = "recover"
    /\ pc' = "loop"
    /\ slept' = RecoverySleep
    /\ pause' = Append(pause, RecoverySleep)
    /\ UNCHANGED <<offlineVars, single,
                   store, edits, storeAtStart, checkedPairs, last_signal,
                   callVars, update_interval, cycle, tIdx, dIdx,
                   aIdx, data, signals, cancelRequested, cycleRaised,
                   attempted, failed, found, alerted, tried, pairLast,
                   lastCheck>>

\* KeyboardInterrupt, or SystemExit raised by signal_handler, anywhere but
\* inside calculate_confidence: it leaves the loop (break at line 325, or it
\* propagates)
SignalStops ==
    /\ pc \in {"loop", "fetch", "detect", "alert", "sleep", "recover"}
    /\ pc' = "stopped"
    /\ cancelRequested' = TRUE
    /\ UNCHANGED <<offlineVars, single, pause,
                   store, edits, storeAtStart, checkedPairs, last_signal,
                   callVars, update_interval, cycle, tIdx, dIdx,
                   aIdx, data, signals, slept, cycleRaised, attempted, failed,
                   found, alerted, tried, pairLast, lastCheck>>

\* The same raised inside calculate_confidence: the bare except at line 114
\* catches it and 0.5 is returned
SignalSwallowed ==
    /\ pc = "confidence"
    /\ cancelRequested' = TRUE
    /\ EventBuilt("default")
    /\ UNCHANGED <<offlineVars, single, pause,
                   store, edits, storeAtStart, callVars, update_interval, cycle,
                   slept, cycleRaised,
                   attempted, failed, alerted>>

NextMonitor ==
    \/ StartCycle
    \/ \E raises \in BOOLEAN, frame \in MonitorWindows \cup {EmptyFrame} :
          FetchData(raises, frame)
    \/ Detect
    \/ Confidence
    \/ \E ok \in BOOLEAN : SendAlert(ok)
    \/ SleepInterval
    \/ Recover
    \/ SignalStops
    \/ SignalSwallowed

SpecMonitor == Init /\ [][NextMonitor]_vars

\* ------------------------------------------------------------------------
\* A caller that checks once before it enters the loop, as lines 191-194 of
\* live_trading_bot.py do
\* ------------------------------------------------------------------------
\* monitor.run_single_check() called directly on a monitor that has not
\* checked yet
SingleCheck ==
    /\ pc = "loop"
    /\ cycle = 0
    /\ cycle < MaxCycles
    /\ single' = TRUE
    /\ cycle' = cycle + 1
    /\ GoTo([pc |-> "fetch", tIdx |-> 1])
    /\ cycleRaised' = FALSE
    /\ attempted' = {}
    /\ failed' = {}
    /\ found' = {}
    /\ alerted' = {}
    /\ storeAtStart' = store
    /\ checkedPairs' = {}
    /\ pause' = <<>>
    /\ UNCHANGED <<offlineVars,
                   store, edits, last_signal, callVars, update_interval, slept,
                   cancelRequested, tried, pairLast, lastCheck>>

\* run_single_check() has returned to the caller, whose next statement is
\* monitor.run_continuous_monitoring(): the while loop is entered
EnterLoop ==
    /\ pc = "sleep"
    /\ single
    /\ pc' = "loop"
    /\ single' = FALSE
    /\ UNCHANGED <<offlineVars, pause,
                   store, edits, storeAtStart, checkedPairs, last_signal,
                   callVars, update_interval, cycle, tIdx, dIdx,
                   aIdx, data, signals, slept, cancelRequested, cycleRaised,
                   attempted, failed, found, alerted, tried, pairLast,
                   lastCheck>>

NextLiveCycles ==
    \/ SingleCheck
    \/ EnterLoop
    \/ NextMonitor

SpecLiveCycles == Init /\ [][NextLiveCycles]_vars

\* ------------------------------------------------------------------------
\* MonitoringStorage.  A record is its ticker, strategy and status; the
\* timestamps and the backtest settings it also carries are left out.  Every
\* operation loads the file, changes the list and saves it.
\* ------------------------------------------------------------------------
Statuses == {"active", "paused", "stopped", "error"}

Matches(item, ticker, strategy) ==
    item.ticker = ticker /\ item.strategy = strategy

\* a list comprehension: the records at the indices in keep, in file order
Kept(list, keep) ==
    LET F[i \in 0..Len(list)] ==
            IF i = 0 THEN <<>>
            ELSE IF i \in keep THEN Append(F[i - 1], list[i]) ELSE F[i - 1]
    IN F[Len(list)]

\* first index whose record matches, 0 when none does
FirstMatch(list, ticker, strategy) ==
    IF \E i \in 1..Len(list) : Matches(list[i], ticker, strategy)
    THEN CHOOSE i \in 1..Len(list) :
            /\ Matches(list[i], ticker, strategy)
            /\ \A j \in 1..(i - 1) : ~Matches(list[j], ticker, strategy)
    ELSE 0

\* dict.update: the keys of updates replace the record's
ApplyUpdates(item, updates) ==
    [f \in DOMAIN item |-> IF f \in DOMAIN updates THEN updates[f] ELSE item[f]]

add_monitoring_config(list, config) ==
    IF FirstMatch(list, config.ticker, config.strategy) # 0
    THEN [list |-> list, result |-> FALSE]
    ELSE [list |-> Append(list,
                     [ticker |-> config.ticker, strategy |-> config.strategy,
                      status |-> IF config.status = None THEN "active"
                                 ELSE config.status]),
          result |-> TRUE]

update_monitoring_status(list, ticker, strategy, status) ==
    LET i == FirstMatch(list, ticker, strategy) IN
    IF i = 0 THEN [list |-> list, result |-> FALSE]
    ELSE [list |-> [list EXCEPT ![i].status = status], result |-> TRUE]

remove_monitoring_config(list, ticker, strategy) ==
    LET kept == Kept(list, {i \in 1..Len(list) :
                                ~Matches(list[i], ticker, strategy)}) IN
    [list |-> kept, result |-> Len(kept) < Len(list)]

get_active_monitoring_configs(list) ==
    Kept(list, {i \in 1..Len(list) : list[i].status = "active"})

update_monitoring_config(list, ticker, strategy, updates) ==
    LET i == FirstMatch(list, ticker, strategy) IN
    IF i = 0 THEN [list |-> list, result |-> FALSE]
    ELSE [list |-> [list EXCEPT ![i] = ApplyUpdates(list[i], updates)],
          result |-> TRUE]

bulk_update_status(list, from_status, to_status) ==
    [list |-> [i \in 1..Len(list) |->
                 IF list[i].status = from_status
                 THEN [list[i] EXCEPT !.status = to_status] ELSE list[i]],
     result |-> Cardinality({i \in 1..Len(list) :
                                list[i].status = from_status})]

cleanup_stopped_configs(list) ==
    LET kept == Kept(list, {i \in 1..Len(list) :
                                list[i].status # "stopped"}) IN
    [list |-> kept, result |-> Len(list) - Len(kept)]

\* status is a plain str parameter: the four statuses the records are meant
\* to carry and one string outside them
StatusArgs == Statuses \cup {"running"}

\* Arguments the callers pass
ConfigArgs ==
    [ticker : TickerSet, strategy : StrategySet, status : {None, "paused"}]
UpdateArgs ==
    {[status |-> "paused"], [status |-> "active"]}
    \cup {[ticker |-> t] : t \in TickerSet}
    \cup {[strategy |-> s] : s \in StrategySet}

StoreUnchanged ==
    UNCHANGED <<last_signal, callVars, monitorVars, offlineVars>>

AddConfig(cap, config) ==
    /\ Len(store) < cap
    /\ store' = add_monitoring_config(store, config).list
    /\ StoreUnchanged

UpdateStatus(ticker, strategy, status) ==
    /\ store' = update_monitoring_status(store, ticker, strategy, status).list
    /\ StoreUnchanged

RemoveConfig(ticker, strategy) ==
    /\ store' = remove_monitoring_config(store, ticker, strategy).list
    /\ StoreUnchanged

UpdateConfig(ticker, strategy, updates) ==
    /\ store' = update_monitoring_config(store, ticker, strategy, updates).list
    /\ StoreUnchanged

BulkUpdate(from_status, to_status) ==
    /\ store' = bulk_update_status(store, from_status, to_status).list
    /\ StoreUnchanged

CleanupStopped ==
    /\ store' = cleanup_stopped_configs(store).list
    /\ StoreUnchanged

\* The operations called one after another on one store
StoreAdd(config) == AddConfig(MaxStore, config) /\ UNCHANGED edits
StoreStatus(t, s, st) == UpdateStatus(t, s, st) /\ UNCHANGED edits
StoreRemove(t, s) == RemoveConfig(t, s) /\ UNCHANGED edits
StoreUpdate(t, s, u) == UpdateConfig(t, s, u) /\ UNCHANGED edits
StoreBulk(f, t) == BulkUpdate(f, t) /\ UNCHANGED edits
StoreCleanup == CleanupStopped /\ UNCHANGED edits

NextStore ==
    \/ \E config \in ConfigArgs : StoreAdd(config)
    \/ \E t \in TickerSet, s \in StrategySet, st \in StatusArgs :
          StoreStatus(t, s, st)
    \/ \E t \in TickerSet, s \in StrategySet : StoreRemove(t, s)
    \/ \E t \in TickerSet, s \in StrategySet, u \in UpdateArgs :
          StoreUpdate(t, s, u)
    \/ \E f \in Statuses, t \in Statuses : StoreBulk(f, t)
    \/ StoreCleanup

SpecStore == Init /\ [][NextStore]_vars

\* ------------------------------------------------------------------------
\* The monitor beside a store that is being edited.  The store starts with
\* one active record per (ticker, strategy) pair the monitor was built with.
\* ------------------------------------------------------------------------
MaxEdits == 1

SeededStore ==
    LET rec(t, s) == [ticker |-> Tickers[t], strategy |-> StrategyNames[s],
                      status |-> "active"]
    IN <<rec(1, 1), rec(1, 2), rec(2, 1), rec(2, 2)>>

InitSeeded ==
    /\ InitMonitor
    /\ store = SeededStore
    /\ IdleRuns
    /\ IdleBacktest
    /\ IdleDesk
    /\ NoTicker

NewConfigs ==
    [ticker : {"MSFT"}, strategy : StrategySet, status : {None}]

Edited == edits < MaxEdits /\ edits' = edits + 1

EditAdd(config) ==
    Edited /\ AddConfig(Len(SeededStore) + MaxEdits, config)
EditStatus(t, s, st) == Edited /\ UpdateStatus(t, s, st)
EditRemove(t, s) == Edited /\ RemoveConfig(t, s)

NextMonitorStore ==
    \/ NextMonitor
    \/ \E config \in NewConfigs : EditAdd(config)
    \/ \E t \in TickerSet, s \in StrategySet, st \in {"paused", "stopped"} :
          EditStatus(t, s, st)
    \/ \E t \in TickerSet, s \in StrategySet : EditRemove(t, s)

SpecMonitorStore == InitSeeded /\ [][NextMonitorStore]_vars

\* ------------------------------------------------------------------------
\* Runs that configure the shared strategy class.  Every Streamlit session
\* runs the page script in the one server process, so the runs of two
\* sessions, and the detectors built beside them, meet in the attributes of
\* the strategy class.
\* ------------------------------------------------------------------------
RunsUnchanged ==
    UNCHANGED <<last_signal, callVars, monitorVars, store, edits, backtestVars,
                pageVars, sideVars>>

\* Backtesting page 416-424: the download comes first; st.error and return
\* when DataProvider hands back None or an empty frame
PageDownload(r, params, fetch) ==
    /\ run[r].pc = "idle"
    /\ LET d == download_data(fetch) IN
        run' = [run EXCEPT ![r] =
                   [@ EXCEPT !.entry = "page", !.params = params,
                             !.fetch = fetch, !.data = d,
                             !.pc = IF Unusable(d) THEN "failed"
                                    ELSE "configure"]]
    /\ UNCHANGED class_params
    /\ RunsUnchanged

\* Backtesting page 426-431: setattr(strategy_class, param_key, param_value)
PageConfigure(r) ==
    /\ run[r].pc = "configure"
    /\ class_params' = run[r].params
    /\ run' = [run EXCEPT ![r] = [@ EXCEPT !.configured = TRUE,
                                           !.pc = "backtest"]]
    /\ RunsUnchanged

\* backtesting_bot.py 43-44: the class attributes are assigned first
BotConfigure(r, params) ==
    /\ run[r].pc = "idle"
    /\ class_params' = params
    /\ run' = [run EXCEPT ![r] = [@ EXCEPT !.entry = "bot", !.params = params,
                                           !.configured = TRUE,
                                           !.pc = "download"]]
    /\ RunsUnchanged

\* backtesting_bot.py 47-49, 64-66: yf.download; an exception or an empty
\* frame ends in the except clause, which returns None
BotDownload(r, fetch) ==
    /\ run[r].pc = "download"
    /\ LET d == IF fetch = "raised" THEN NoData ELSE yf_download(fetch) IN
        run' = [run EXCEPT ![r] =
                   [@ EXCEPT !.fetch = fetch, !.data = d,
                             !.pc = IF Unusable(d) THEN "failed"
                                    ELSE "backtest"]]
    /\ UNCHANGED class_params
    /\ RunsUnchanged

\* Backtest(data, strategy_class, ...).run(): init() and next() read the
\* parameters from the class as it is now; the statistics come back whether
\* or not a trade was made (the returns chart is only drawn for trades)
RunBacktest(r, n) ==
    /\ run[r].pc = "backtest"
    /\ run' = [run EXCEPT ![r] =
                  [@ EXCEPT !.used = class_params,
                            !.stats = [returned |-> TRUE, trades |-> n],
                            !.pc = "done"]]
    /\ UNCHANGED class_params
    /\ RunsUnchanged

\* SignalDetector.__init__ 32-39: setattr on the class, not on an instance
DetectorInit(r, params) ==
    /\ run[r].pc = "idle"
    /\ class_params' = params
    /\ run' = [run EXCEPT ![r] = [@ EXCEPT !.entry = "detector",
                                           !.params = params,
                                           !.configured = TRUE,
                                           !.pc = "ready"]]
    /\ RunsUnchanged

\* get_signal_state 49-50: rolling(self.strategy_class.short_ma), long_ma
DetectorEvaluate(r) ==
    /\ run[r].pc = "ready"
    /\ run' = [run EXCEPT ![r] = [@ EXCEPT !.used = class_params,
                                           !.pc = "done"]]
    /\ UNCHANGED class_params
    /\ RunsUnchanged

\* st.button: True only in the script run that the widget's own click set
\* off, False in every other run of the script
st_button(widget, clicked_widget) == widget = clicked_widget

\* Backtesting page 396-461, run again by a click on "Add to Monitoring".
\* The button is created inside the body of `if run_button:`; in the run the
\* click sets off, run_button is False, the body is skipped, and with it the
\* results and the button's own branch.
PageClickAdd(r) ==
    /\ run[r].entry = "page" /\ run[r].pc = "done" /\ run[r].stats.returned
    /\ LET run_button == st_button("run", "add")
           reached == run_button /\ st_button("add", "add")
           config == [ticker |-> Tickers[1], strategy |-> StrategyNames[1],
                      status |-> "active"]
       IN /\ store' = IF reached THEN add_monitoring_config(store, config).list
                       ELSE store
          /\ clicked' = clicked \cup {[run |-> r, reached |-> reached]}
    /\ run' = [run EXCEPT ![r] = IdleRun]
    /\ UNCHANGED <<last_signal, callVars, monitorVars, edits, backtestVars,
                   class_params, sideVars>>

NextRuns ==
    \/ \E r \in Runs : PageClickAdd(r)
    \/ \E r \in Runs, params \in ParamsOf("page"), fetch \in Fetches :
          PageDownload(r, params, fetch)
    \/ \E r \in Runs : PageConfigure(r)
    \/ \E r \in Runs, params \in ParamsOf("bot") : BotConfigure(r, params)
    \/ \E r \in Runs, fetch \in Fetches : BotDownload(r, fetch)
    \/ \E r \in Runs, n \in {0, 1} : RunBacktest(r, n)
    \/ \E r \in Runs, params \in ParamsOf("detector") : DetectorInit(r, params)
    \/ \E r \in Runs : DetectorEvaluate(r)

SpecRuns == Init /\ [][NextRuns]_vars

\* ------------------------------------------------------------------------
\* Price series and the indicators Strategy.init() computes over them.
\* Bars are indexed from 0 as in the source; a price is a small integer, an
\* indicator value a fraction num/den, with den = 0 standing for NaN.
\* ------------------------------------------------------------------------
MaxBars == 6       \* bars of a series handed to Backtest()

Prices == 1..3

\* Initial cash of a run, on the scale of Prices
CashChoices == {4, 6}

NBars(s) == Len(s.closes)
Close(s, t) == s.closes[t + 1]
Open(s, t) == IF t = 0 THEN Close(s, 0) ELSE Close(s, t - 1)
High(s, t) ==
    (IF Open(s, t) > Close(s, t) THEN Open(s, t) ELSE Close(s, t)) + s.wick
Low(s, t) ==
    (IF Open(s, t) < Close(s, t) THEN Open(s, t) ELSE Close(s, t)) - s.wick

\* The series without the bars after t
Truncate(s, t) == [s EXCEPT !.closes = SubSeq(s.closes, 1, t + 1)]

NaNValue == [num |-> 0, den |-> 0]
Value(n) == [num |-> n, den |-> 1]
IsNaN(a) == a.den = 0

\* Comparisons of floats: False as soon as one side is NaN
Less(a, b) == ~IsNaN(a) /\ ~IsNaN(b) /\ a.num * b.den < b.num * a.den
LessEq(a, b) == ~IsNaN(a) /\ ~IsNaN(b) /\ a.num * b.den <= b.num * a.den

RECURSIVE Power(_, _)
Power(b, e) == IF e = 0 THEN 1 ELSE b * Power(b, e - 1)

RECURSIVE SumOver(_, _, _, _)
\* the sum of term[k] for k in from..to
SumOver(term, from, to, acc) ==
    IF from > to THEN acc ELSE SumOver(term, from + 1, to, acc + term[from])

\* pd.Series(close).rolling(n).mean()[t]
rolling_mean(s, n, t) ==
    IF t < n - 1 THEN NaNValue
    ELSE [num |-> SumOver([k \in 0..t |-> Close(s, k)], t - n + 1, t, 0),
          den |-> n]

\* close.ewm(span=span).mean()[t]: weights ((span-1)/(span+1))^i over all
\* bars up to t, defined from bar 0 on
ewm_mean(s, span, t) ==
    LET w == [k \in 0..t |-> Power(span - 1, t - k) * Power(span + 1, k)] IN
    [num |-> SumOver([k \in 0..t |-> w[k] * Close(s, k)], 0, t, 0),
     den |-> SumOver(w, 0, t, 0)]

\* RSIStrategy.init: rolling(period).apply(100 - 100 / (1 + gain / loss))
\* over the differences inside the window; x/0 is inf and 0/0 is NaN
rolling_rsi(s, period, t) ==
    IF t < period - 1 THEN NaNValue
    ELSE LET d == [k \in 1..t |-> Close(s, k) - Close(s, k - 1)]
             gain == SumOver([k \in 1..t |-> IF d[k] > 0 THEN d[k] ELSE 0],
                             t - period + 2, t, 0)
             loss == SumOver([k \in 1..t |-> IF d[k] < 0 THEN 0 - d[k] ELSE 0],
                             t - period + 2, t, 0)
         IN [num |-> 100 * gain, den |-> gain + loss]

RECURSIVE MaxOver(_, _, _)
MaxOver(f, from, to) ==
    IF from = to THEN f[from]
    ELSE LET m == MaxOver(f, from + 1, to) IN IF f[from] > m THEN f[from] ELSE m

RECURSIVE MinOver(_, _, _)
MinOver(f, from, to) ==
    IF from = to THEN f[from]
    ELSE LET m == MinOver(f, from + 1, to) IN IF f[from] < m THEN f[from] ELSE m

\* high.rolling(n).max()[t] and low.rolling(n).min()[t]
rolling_max(s, n, t) ==
    IF t < n - 1 THEN NaNValue
    ELSE Value(MaxOver([k \in 0..t |-> High(s, k)], t - n + 1, t))
rolling_min(s, n, t) ==
    IF t < n - 1 THEN NaNValue
    ELSE Value(MinOver([k \in 0..t |-> Low(s, k)], t - n + 1, t))

\* backtesting.lib.crossover(series1, series2) at bar t:
\* series1[-2] < series2[-2] and series1[-1] > series2[-1]
crossover(a_prev, a_last, b_prev, b_last) ==
    Less(a_prev, b_prev) /\ Less(b_last, a_last)

\* ------------------------------------------------------------------------
\* Strategies: class attributes and next()
\* ------------------------------------------------------------------------
\* The strategy classes a backtest is run with here
StrategyClasses ==
    {"TrendFollowing", "DualMovingAverageStrategy", "ShortTermTrendStrategy",
     "UltraFastEMAStrategy", "RSIStrategy", "BreakoutStrategy"}

\* The class attributes as the run is configured: the periods of the rolling
\* indicators set to fit a series of MaxBars bars, the EMA spans and the RSI
\* levels as the classes define them
StrategyAttrs(cls) ==
    CASE cls = "TrendFollowing" -> [short_ma |-> 1, long_ma |-> 2]
      [] cls = "DualMovingAverageStrategy" -> [fast_ma |-> 1, slow_ma |-> 2]
      [] cls = "ShortTermTrendStrategy" -> [short_ma |-> 1, long_ma |-> 2]
      [] cls = "UltraFastEMAStrategy" -> [fast_ema |-> 2, slow_ema |-> 5]
      [] cls = "RSIStrategy" ->
            [rsi_period |-> 3, rsi_upper |-> RsiUpper, rsi_lower |-> RsiLower]
      [] OTHER -> [period |-> 2]

\* The largest lookback among a class's period attributes
Lookback(cls) ==
    LET a == StrategyAttrs(cls) IN
    CASE cls \in {"TrendFollowing", "ShortTermTrendStrategy"} -> a.long_ma
      [] cls = "DualMovingAverageStrategy" -> a.slow_ma
      [] cls = "UltraFastEMAStrategy" -> a.slow_ema
      [] cls = "RSIStrategy" -> a.rsi_period
      [] OTHER -> a.period

\* The arrays init() declares with self.I(...), each over the whole series
Indicators(cls, s) ==
    LET a == StrategyAttrs(cls)
        I(f(_)) == [t \in 0..NBars(s) - 1 |-> f(t)]
        short(t) == rolling_mean(s, a.short_ma, t)
        long(t) == rolling_mean(s, a.long_ma, t)
        fast(t) == rolling_mean(s, a.fast_ma, t)
        slow(t) == rolling_mean(s, a.slow_ma, t)
        efast(t) == ewm_mean(s, a.fast_ema, t)
        eslow(t) == ewm_mean(s, a.slow_ema, t)
        rsi(t) == rolling_rsi(s, a.rsi_period, t)
        upper(t) == rolling_max(s, a.period, t)
        lower(t) == rolling_min(s, a.period, t)
    IN CASE cls \in {"TrendFollowing", "ShortTermTrendStrategy"} ->
                <<I(short), I(long)>>
         [] cls = "DualMovingAverageStrategy" -> <<I(fast), I(slow)>>
         [] cls = "UltraFastEMAStrategy" -> <<I(efast), I(eslow)>>
         [] cls = "RSIStrategy" -> <<I(rsi)>>
         [] OTHER -> <<I(upper), I(lower)>>

\* np.isnan(indicator).argmin(): the first index that is not NaN, 0 when
\* there is none
FirstValid(ind) ==
    LET valid == {t \in DOMAIN ind : ~IsNaN(ind[t])} IN
    IF valid = {} THEN 0
    ELSE CHOOSE t \in valid : \A u \in valid : t <= u

\* Backtest.run: start = 1 + max(first valid index of every indicator);
\* next() is not called for the bars before start
Start(cls, s) ==
    LET ind == Indicators(cls, s)
        firsts == {FirstValid(ind[i]) : i \in DOMAIN ind}
    IN 1 + (CHOOSE m \in firsts : \A f \in firsts : f <= m)

Buy == [close |-> FALSE, entry |-> "BUY"]
Sell == [close |-> FALSE, entry |-> "SELL"]

\* strategies.py 16-20: buy() / sell() whatever the position
TrendFollowing_next(s, t, position) ==
    LET ind == Indicators("TrendFollowing", s)
        ma_short == ind[1]
        ma_long == ind[2]
    IN IF crossover(ma_short[t - 1], ma_short[t], ma_long[t - 1], ma_long[t])
       THEN Buy
       ELSE IF crossover(ma_long[t - 1], ma_long[t],
                         ma_short[t - 1], ma_short[t])
       THEN Sell
       ELSE NoOrders

\* strategies.py 147-151: the cross spelled out, with <= and >= at t-1
DualMovingAverageStrategy_next(s, t, position) ==
    LET ind == Indicators("DualMovingAverageStrategy", s)
        fast_sma == ind[1]
        slow_sma == ind[2]
    IN IF Less(slow_sma[t], fast_sma[t])
          /\ LessEq(fast_sma[t - 1], slow_sma[t - 1])
       THEN Buy
       ELSE IF Less(fast_sma[t], slow_sma[t])
               /\ LessEq(slow_sma[t - 1], fast_sma[t - 1])
       THEN Sell
       ELSE NoOrders

\* flip_next without the position.close() calls
flip_next_keeps(fast, slow, t, position) ==
    IF crossover(fast[t - 1], fast[t], slow[t - 1], slow[t]) THEN Buy
    ELSE IF crossover(slow[t - 1], slow[t], fast[t - 1], fast[t]) THEN Sell
    ELSE NoOrders

\* The flip of lines 18-25 on a pair of indicators
flip_next(fast, slow, t, position) ==
    IF crossover(fast[t - 1], fast[t], slow[t - 1], slow[t])
    THEN [close |-> position < 0, entry |-> "BUY"]
    ELSE IF crossover(slow[t - 1], slow[t], fast[t - 1], fast[t])
    THEN [close |-> position > 0, entry |-> "SELL"]
    ELSE NoOrders

\* enhanced_strategies.py 17-25
ShortTermTrendStrategy_next(s, t, position) ==
    LET ind == Indicators("ShortTermTrendStrategy", s) IN
    flip_next(ind[1], ind[2], t, position)

\* ultra_short_strategies.py 17-25
UltraFastEMAStrategy_next(s, t, position) ==
    LET ind == Indicators("UltraFastEMAStrategy", s) IN
    flip_next(ind[1], ind[2], t, position)

\* strategies.py 35-39: the level of the RSI, not a cross
RSIStrategy_next(s, t, position) ==
    LET a == StrategyAttrs("RSIStrategy")
        rsi == Indicators("RSIStrategy", s)[1]
    IN IF Less(rsi[t], Value(a.rsi_lower)) /\ position = 0 THEN Buy
       ELSE IF Less(Value(a.rsi_upper), rsi[t]) /\ position # 0 THEN Sell
       ELSE NoOrders

\* BreakoutStrategy.next with upper[-1] / lower[-1]: the window holds bar t
BreakoutStrategy_next_current(s, t, position) ==
    LET ind == Indicators("BreakoutStrategy", s)
        upper == ind[1]
        lower == ind[2]
    IN IF Less(upper[t], Value(Close(s, t))) /\ position = 0 THEN Buy
       ELSE IF Less(Value(Close(s, t)), lower[t]) /\ position # 0 THEN Sell
       ELSE NoOrders

\* strategies.py 130-134: Close[-1] against upper[-2] / lower[-2]
BreakoutStrategy_next(s, t, position) ==
    LET ind == Indicators("BreakoutStrategy", s)
        upper == ind[1]
        lower == ind[2]
    IN IF Less(upper[t - 1], Value(Close(s, t))) /\ position = 0 THEN Buy
       ELSE IF Less(Value(Close(s, t)), lower[t - 1]) /\ position # 0 THEN Sell
       ELSE NoOrders

\* Strategy.next() of the class the run was built with
strategy_next(cls, s, t, position) ==
    CASE cls = "TrendFollowing" -> TrendFollowing_next(s, t, position)
      [] cls = "DualMovingAverageStrategy" ->
            DualMovingAverageStrategy_next(s, t, position)
      [] cls = "ShortTermTrendStrategy" ->
            ShortTermTrendStrategy_next(s, t, position)
      [] cls = "UltraFastEMAStrategy" ->
            UltraFastEMAStrategy_next(s, t, position)
      [] cls = "RSIStrategy" -> RSIStrategy_next(s, t, position)
      [] OTHER -> BreakoutStrategy_next(s, t, position)

\* What next() asked for: BUY, SELL, or HOLD when it placed no order
Decision(o) == IF o.entry # None THEN o.entry ELSE "HOLD"

\* ------------------------------------------------------------------------
\* The broker behind Backtest(data, strategy_class, cash=..., commission=...)
\* as the pages and the bot build it: no hedging, no exclusive orders, orders
\* filled at the next bar's open.  Commission is taken as 0.
\* ------------------------------------------------------------------------
Abs(n) == IF n < 0 THEN 0 - n ELSE n

RECURSIVE SumSizes(_)
SumSizes(ts) == IF ts = <<>> THEN 0 ELSE Head(ts).size + SumSizes(Tail(ts))

\* Position.size: the open trades taken together
Position(ts) == SumSizes(ts)

RECURSIVE ProfitLoss(_, _)
ProfitLoss(ts, price) ==
    IF ts = <<>> THEN 0
    ELSE Head(ts).size * (price - Head(ts).entry_price)
         + ProfitLoss(Tail(ts), price)

RECURSIVE MarginUsed(_, _)
MarginUsed(ts, price) ==
    IF ts = <<>> THEN 0
    ELSE Abs(Head(ts).size) * price + MarginUsed(Tail(ts), price)

equity(c, ts, last_price) == c + ProfitLoss(ts, last_price)

margin_available(c, ts, last_price) ==
    LET m == equity(c, ts, last_price) - MarginUsed(ts, last_price) IN
    IF m < 0 THEN 0 ELSE m

\* buy() / sell() ask for all but an epsilon of the available margin:
\* int((margin * (1 - epsilon)) // price) units
Units(m, price) ==
    IF m <= 0 THEN 0
    ELSE IF m % price = 0 THEN (m \div price) - 1
    ELSE m \div price

RECURSIVE FifoFill(_, _, _, _)
\* An order of need units first closes or reduces the open trades facing the
\* other way, oldest first
FifoFill(ts, need, c, price) ==
    IF ts = <<>> \/ need = 0 THEN [trades |-> ts, need |-> need, cash |-> c]
    ELSE LET tr == Head(ts) IN
         IF tr.size * need > 0
         THEN LET r == FifoFill(Tail(ts), need, c, price) IN
              [r EXCEPT !.trades = <<tr>> \o r.trades]
         ELSE IF Abs(need) >= Abs(tr.size)
         THEN FifoFill(Tail(ts), need + tr.size,
                       c + tr.size * (price - tr.entry_price), price)
         ELSE [trades |-> <<[tr EXCEPT !.size = tr.size + need]>> \o Tail(ts),
               need |-> 0,
               cash |-> c + (0 - need) * (price - tr.entry_price)]

\* _Broker._process_orders for what one next() can have placed: the closing
\* orders of position.close() come first, then the buy() or sell()
process_orders(c, ts, o, price, last_price) ==
    LET c1 == IF o.close THEN c + ProfitLoss(ts, price) ELSE c
        ts1 == IF o.close THEN <<>> ELSE ts
        units == Units(margin_available(c1, ts1, last_price), price)
        need == IF o.entry = "BUY" THEN units ELSE 0 - units
        f == FifoFill(ts1, need, c1, price)
    IN IF o.entry = None \/ units = 0 THEN [cash |-> c1, trades |-> ts1]
       ELSE IF Abs(f.need) * price
                  > margin_available(f.cash, f.trades, last_price)
       THEN [cash |-> f.cash, trades |-> f.trades]
       ELSE IF f.need # 0
       THEN [cash |-> f.cash,
             trades |-> Append(f.trades,
                               [size |-> f.need, entry_price |-> price])]
       ELSE [cash |-> f.cash, trades |-> f.trades]

\* _Broker.next at bar t: the orders, then the out-of-money test
broker_next(c, ts, o, s, t) ==
    LET r == process_orders(c, ts, o, Open(s, t), Close(s, t)) IN
    IF equity(r.cash, r.trades, Close(s, t)) <= 0
    THEN [cash |-> 0, trades |-> <<>>, out_of_money |-> TRUE]
    ELSE [cash |-> r.cash, trades |-> r.trades, out_of_money |-> FALSE]

BacktestUnchanged ==
    UNCHANGED <<last_signal, callVars, monitorVars, store, edits, runVars,
                pageVars, sideVars>>

\* Backtest(data, strategy_class, cash=cash).run() up to its loop: init()
\* has computed the indicators and the bars before start are skipped
NewBacktest(cls, closes, wick, c) ==
    /\ strategy_class = None
    /\ LET s == [closes |-> closes, wick |-> wick] IN
        /\ series' = s
        /\ bar' = Start(cls, s)
        /\ decisions' = [t \in 1..Start(cls, s) |->
                            [action |-> "HOLD", position |-> 0]]
    /\ strategy_class' = cls
    /\ cash' = c
    /\ trades' = <<>>
    /\ orders' = NoOrders
    /\ filled' = NoFill
    /\ BacktestUnchanged

\* One turn of the loop: broker.next(), then strategy.next()
BacktestBar ==
    /\ strategy_class # None
    /\ bar < NBars(series)
    /\ LET r == broker_next(cash, trades, orders, series, bar)
           position == Position(r.trades)
           o == strategy_next(strategy_class, series, bar, position)
       IN /\ cash' = r.cash
          /\ trades' = r.trades
          /\ filled' = [placed |-> orders, price |-> Open(series, bar),
                        before |-> Position(trades), after |-> position]
          /\ IF r.out_of_money
             THEN /\ bar' = NBars(series) + 1
                  /\ orders' = NoOrders
                  /\ UNCHANGED decisions
             ELSE /\ bar' = bar + 1
                  /\ orders' = o
                  /\ decisions' = Append(decisions,
                                         [action |-> Decision(o),
                                          position |-> position])
    /\ UNCHANGED <<strategy_class, series>>
    /\ BacktestUnchanged

\* After the last bar: trade.close() for what is still open and one more
\* broker.next() on the last bar
BacktestFinish ==
    /\ strategy_class # None
    /\ bar = NBars(series)
    /\ LET o == [orders EXCEPT !.close = TRUE]
           r == broker_next(cash, trades, o, series, bar - 1)
       IN /\ cash' = r.cash
          /\ trades' = r.trades
          /\ filled' = [placed |-> o, price |-> Open(series, bar - 1),
                        before |-> Position(trades),
                        after |-> Position(r.trades)]
    /\ bar' = bar + 1
    /\ orders' = NoOrders
    /\ UNCHANGED <<strategy_class, series, decisions>>
    /\ BacktestUnchanged

\* Series a run can be given: the closes, and for the breakout strategy a
\* wick that sets High and Low apart from Open and Close
Wicks(cls) == IF cls = "BreakoutStrategy" THEN {0, 1} ELSE {0}

\* The closes of the series a Backtest can be built on, while none is built
Closes == IF strategy_class = None THEN [1..MaxBars -> Prices] ELSE {}

NextBacktest ==
    \/ \E closes \in Closes, cls \in StrategyClasses, c \in CashChoices :
          \E wick \in Wicks(cls) : NewBacktest(cls, closes, wick, c)
    \/ BacktestBar
    \/ BacktestFinish

SpecBacktest == Init /\ [][NextBacktest]_vars

\* ------------------------------------------------------------------------
\* The Monitoring Dashboard page.  Each browser session runs the page script
\* with its own st.session_state; all of them, and MonitoringStorage, read
\* and write the one file monitoring_data.json.
\* ------------------------------------------------------------------------
\* lines 12-28: the session's list when it has one, the file otherwise
load_monitoring_data(state, file) ==
    IF state.cached THEN state.list ELSE file

\* the list the script of session s works on (line 76)
Working(s) == load_monitoring_data(session[s], store)

\* lines 30-42: the whole list goes to the file and into the session
save_monitoring_data(s, list) ==
    /\ store' = list
    /\ session' = [session EXCEPT ![s] = [cached |-> TRUE, list |-> list]]

\* lines 116-134: every item with one status is given the other
set_where(list, from_status, to_status) ==
    [i \in 1..Len(list) |->
        IF list[i].status = from_status
        THEN [list[i] EXCEPT !.status = to_status] ELSE list[i]]

KeyOf(item) == <<item.ticker, item.strategy>>

DashboardUnchanged ==
    UNCHANGED <<last_signal, callVars, monitorVars, edits, runVars,
                backtestVars, pageVars, live, tickerVars>>

\* lines 116-124; nothing is saved when no item was paused
ResumeAllPaused(s) ==
    LET list == Working(s) IN
    /\ list # <<>>
    /\ \E i \in 1..Len(list) : list[i].status = "paused"
    /\ save_monitoring_data(s, set_where(list, "paused", "active"))
    /\ UNCHANGED added
    /\ DashboardUnchanged

\* lines 126-134
PauseAllActive(s) ==
    LET list == Working(s) IN
    /\ list # <<>>
    /\ \E i \in 1..Len(list) : list[i].status = "active"
    /\ save_monitoring_data(s, set_where(list, "active", "paused"))
    /\ UNCHANGED added
    /\ DashboardUnchanged

\* lines 136-142
ClearAllStopped(s) ==
    LET list == Working(s)
        stopped == {i \in 1..Len(list) : list[i].status = "stopped"}
    IN
    /\ list # <<>>
    /\ stopped # {}
    /\ save_monitoring_data(s, Kept(list, (1..Len(list)) \ stopped))
    /\ added' = added \ {KeyOf(list[i]) : i \in stopped}
    /\ DashboardUnchanged

\* lines 176-180: the button is there for a paused item only
Resume(s, i) ==
    LET list == Working(s) IN
    /\ i \in 1..Len(list)
    /\ list[i].status = "paused"
    /\ save_monitoring_data(s, [list EXCEPT ![i].status = "active"])
    /\ UNCHANGED added
    /\ DashboardUnchanged

\* lines 181-184: the button is there for an active item only
Pause(s, i) ==
    LET list == Working(s) IN
    /\ i \in 1..Len(list)
    /\ list[i].status = "active"
    /\ save_monitoring_data(s, [list EXCEPT ![i].status = "paused"])
    /\ UNCHANGED added
    /\ DashboardUnchanged

\* lines 186-189: the button is there for every item
Stop(s, i) ==
    LET list == Working(s) IN
    /\ i \in 1..Len(list)
    /\ save_monitoring_data(s, [list EXCEPT ![i].status = "stopped"])
    /\ UNCHANGED added
    /\ DashboardUnchanged

\* lines 199-209: monitoring_list.pop(i)
Remove(s, i) ==
    LET list == Working(s) IN
    /\ i \in 1..Len(list)
    /\ save_monitoring_data(s, Kept(list, (1..Len(list)) \ {i}))
    /\ added' = added \ {KeyOf(list[i])}
    /\ DashboardUnchanged

\* lines 219-271: the form below the list offers TrendFollowing only and
\* looks for a duplicate in the list the script works on
ManualAdd(s, new_ticker) ==
    LET list == Working(s) IN
    /\ list # <<>>
    /\ FirstMatch(list, new_ticker, "TrendFollowing") = 0
    /\ save_monitoring_data(s, Append(list, [ticker |-> new_ticker,
                                             strategy |-> "TrendFollowing",
                                             status |-> "active"]))
    /\ UNCHANGED added
    /\ DashboardUnchanged

\* Backtesting page 448-461: another user of the file, through
\* MonitoringStorage.add_monitoring_config
BacktestAdd(config) ==
    LET r == add_monitoring_config(store, config) IN
    /\ r.result
    /\ store' = r.list
    /\ added' = added \cup {KeyOf(config)}
    /\ UNCHANGED session
    /\ DashboardUnchanged

\* positions an item can have in a list of one record per ticker
DashboardRows == 1..Cardinality(TickerSet)

DashboardConfigs ==
    [ticker : TickerSet, strategy : {"TrendFollowing"}, status : {"active"}]

NextDashboard ==
    \/ \E config \in DashboardConfigs : BacktestAdd(config)
    \/ \E s \in Sessions : ResumeAllPaused(s)
    \/ \E s \in Sessions : PauseAllActive(s)
    \/ \E s \in Sessions : ClearAllStopped(s)
    \/ \E s \in Sessions, i \in DashboardRows : Resume(s, i)
    \/ \E s \in Sessions, i \in DashboardRows : Pause(s, i)
    \/ \E s \in Sessions, i \in DashboardRows : Stop(s, i)
    \/ \E s \in Sessions, i \in DashboardRows : Remove(s, i)
    \/ \E s \in Sessions, t \in TickerSet : ManualAdd(s, t)

SpecDashboard == Init /\ [][NextDashboard]_vars

\* ------------------------------------------------------------------------
\* live_trading_bot.run_live_monitoring, started beside a store that its
\* other users write
\* ------------------------------------------------------------------------
\* RealTimeMonitor.__init__(self, tickers, strategies_config, alert_systems,
\* update_interval=300): its parameters, and those without a default
InitParams == {"tickers", "strategies_config", "alert_systems", "update_interval"}
InitRequired == {"tickers", "strategies_config", "alert_systems"}

\* the methods class RealTimeMonitor defines
MonitorMethods ==
    {"get_latest_data", "check_signals_for_ticker", "send_alerts",
     "run_single_check", "run_continuous_monitoring"}

\* a call by keyword: TypeError on an unexpected keyword or a missing
\* required parameter
call_init(kwargs) ==
    IF kwargs \subseteq InitParams /\ InitRequired \subseteq kwargs
    THEN "constructed" ELSE "TypeError"

\* lines 169-173: the keywords run_live_monitoring passes
LiveKwargs == {"alert_systems", "update_interval", "use_storage"}

\* lines 159-201.  The constructor call and the summary are outside the try
\* block, so what they raise leaves run_live_monitoring.
RunLiveMonitoring ==
    /\ live.outcome = "idle"
    /\ LET active == Len(get_active_monitoring_configs(store))
           outcome ==
               IF call_init(LiveKwargs) = "TypeError" THEN "TypeError"
               ELSE IF "get_monitoring_summary" \notin MonitorMethods
                    THEN "AttributeError"
               ELSE IF active = 0 THEN "returned"
               ELSE "monitoring"
       IN live' = [outcome |-> outcome, active |-> active,
                   checks |-> IF outcome = "monitoring" THEN 1 ELSE 0]
    /\ UNCHANGED <<last_signal, callVars, monitorVars, store, edits, runVars,
                   backtestVars, pageVars, session, added, tickerVars>>

NextLiveStart ==
    \/ NextStore
    \/ RunLiveMonitoring

SpecLiveStart == Init /\ [][NextLiveStart]_vars

\* ------------------------------------------------------------------------
\* DataProvider.normalize_ticker.  A ticker is the sequence of its
\* characters.
\* ------------------------------------------------------------------------
TickerLen == 6

Digits == {"0"}

\* str.upper, character by character
upper_char(c) ==
    CASE c = "a" -> "A" [] c = "k" -> "K" [] c = "s" -> "S" [] c = "q" -> "Q"
      [] OTHER -> c
upper(t) == [i \in 1..Len(t) |-> upper_char(t[i])]

endswith(t, suffix) ==
    /\ Len(t) >= Len(suffix)
    /\ SubSeq(t, Len(t) - Len(suffix) + 1, Len(t)) = suffix

isdigit(t) == Len(t) > 0 /\ \A i \in 1..Len(t) : t[i] \in Digits

KS == <<".", "K", "S">>
KQ == <<".", "K", "Q">>

detect_market(t) ==
    IF endswith(t, KS) \/ endswith(t, KQ) THEN "KRX"
    ELSE IF isdigit(t) /\ Len(t) = TickerLen THEN "KRX"
    ELSE "US"

normalize_ticker(t, market) ==
    LET upper_ticker == upper(t)
        base_ticker == IF endswith(upper_ticker, KS) \/ endswith(upper_ticker, KQ)
                       THEN SubSeq(upper_ticker, 1, Len(upper_ticker) - 3)
                       ELSE upper_ticker
        m == IF market = None THEN detect_market(t) ELSE market
    IN IF m = "KRX" THEN base_ticker \o KS ELSE base_ticker

\* Tickers a caller may pass: digits and letters of either case, up to the
\* length of a KRX code, bare or with an exchange suffix in any letter case
BaseChars == {"0", "a", "A"}
Suffixes ==
    {<<".", k, x>> : k \in {"K", "k"}, x \in {"S", "s", "Q", "q"}}
TickerInputs ==
    {b \o x : b \in UNION {[1..n -> BaseChars] : n \in 1..TickerLen},
              x \in Suffixes \cup {<<>>}}

InitTicker ==
    /\ InitMonitor
    /\ store = <<>>
    /\ IdleRuns
    /\ IdleBacktest
    /\ IdleDesk
    /\ raw_ticker \in TickerInputs
    /\ normalized = <<>>

\* normalize_ticker(raw_ticker), then normalize_ticker of what came back
Normalize ==
    /\ Len(normalized) < 2
    /\ normalized' = Append(normalized,
                            normalize_ticker(IF normalized = <<>> THEN raw_ticker
                                             ELSE normalized[Len(normalized)],
                                             None))
    /\ UNCHANGED <<last_signal, callVars, monitorVars, store, edits, runVars,
                   backtestVars, pageVars, deskVars, raw_ticker>>

NextTicker == Normalize

SpecTicker == InitTicker /\ [][NextTicker]_vars

\* ------------------------------------------------------------------------
\* Properties
\* ------------------------------------------------------------------------
Actions == {"BUY", "SELL"}

\* C1: a check_signal call returns an event exactly when the signal it
\* computed is BUY or SELL and differs from last_signal as it stood before the
\* call, and the event carries that signal; every other call returns None.
C1_EventIffTransition ==
    \A i \in 1..Len(calls) :
        LET c == calls[i] IN
        /\ (c.event # NoEvent) <=> (c.signal \in Actions /\ c.signal # c.before)
        /\ c.event # NoEvent => c.event.action = c.signal

\* a log holding an emitting call, a HOLD call and a repeated BUY/SELL call
C1_Witness ==
    /\ \E i \in 1..Len(calls) : calls[i].event # NoEvent
    /\ \E i \in 1..Len(calls) :
          calls[i].signal = "HOLD" /\ calls[i].event = NoEvent
    /\ \E i \in 1..Len(calls) :
          /\ calls[i].signal \in Actions
          /\ calls[i].signal = calls[i].before
          /\ calls[i].event = NoEvent

CallsOf(s) == SelectSeq(calls, LAMBDA c : c.strategy = s)

\* C2: when all n >= 1 calls made so far on a fresh detector computed the
\* same BUY or SELL signal, exactly one event was emitted, by the first call.
C2_OneEventPerRun ==
    \A s \in StrategySet :
        LET cs == CallsOf(s) IN
        (/\ Len(cs) >= 1
         /\ cs[1].signal \in Actions
         /\ \A k \in 1..Len(cs) : cs[k].signal = cs[1].signal)
        => /\ cs[1].event # NoEvent
           /\ \A k \in 2..Len(cs) : cs[k].event = NoEvent

\* five consecutive BUY computations on one detector
C2_Witness ==
    \E s \in StrategySet :
        LET cs == CallsOf(s) IN
        /\ Len(cs) >= 5
        /\ \A k \in 1..Len(cs) : cs[k].signal = "BUY"
        /\ cs[1].event.action = "BUY"

\* C3: when a cycle reaches its end, every ticker after one that had a
\* failure (no data, a detector error, a failing transport) was attempted,
\* and was alerted when signals were found for it.
C3_FailureIsolated ==
    pc = "sleep" =>
        \A i \in failed : \A j \in AllTickers :
            j > i => /\ j \in attempted
                     /\ j \in found => j \in alerted

\* the first ticker failed and the second was alerted in the same cycle
C3_Witness ==
    pc = "sleep" /\ 1 \in failed /\ 2 \in found /\ 2 \in alerted

\* C4: an exception caught by the loop never ends it: the loop is left only
\* after a termination signal, the handler sleeps RecoverySleep seconds and
\* the loop is back at its top, where the next cycle can start.
C4_LoopSurvivesException ==
    /\ pc = "stopped" => cancelRequested
    /\ cycleRaised => pc \in {"recover", "loop", "stopped"}
    /\ (cycleRaised /\ pc = "loop") => slept = RecoverySleep
    /\ (pc = "loop" /\ cycle < MaxCycles) => ENABLED StartCycle

\* a second cycle running after the first one raised, with no signal sent
C4_Witness ==
    /\ cycle = 2 /\ pc = "fetch"
    /\ slept = RecoverySleep
    /\ update_interval < 0
    /\ ~cancelRequested

\* C5: once a termination signal has been delivered, no new check cycle is
\* started.
C5_NoCycleAfterCancel ==
    [][cancelRequested => ~(pc = "loop" /\ pc' = "fetch")]_vars

ActiveRecords(list) ==
    LET active == get_active_monitoring_configs(list) IN
    {active[i] : i \in 1..Len(active)}

\* C6: the pairs a cycle checks are the pairs that were active in the store
\* when the cycle started: every checked pair was active, and the ticker of
\* every active record was attempted.
C6_ConfigReadAtCycleStart ==
    pc = "sleep" =>
        /\ \A p \in checkedPairs :
              \E r \in ActiveRecords(storeAtStart) :
                  r.ticker = p[1] /\ r.strategy = p[2]
        /\ \A r \in ActiveRecords(storeAtStart) :
              \E i \in attempted : Tickers[i] = r.ticker

\* C7: when the sleep after a cycle begins (the interval sleep or the
\* recovery sleep), the check of every configured ticker has been started.
C7_AllTickersAttempted ==
    pc \in {"sleep", "recover"} => attempted = AllTickers

\* the second cycle is at its sleep with both tickers attempted
C7_Witness ==
    pc = "sleep" /\ cycle = 2 /\ attempted = AllTickers

\* C8: whenever send_alerts is not running, it has tried every registered
\* transport for the last alert and has returned for every ticker with
\* signals, whether or not a transport failed.
C8_AllTransportsTried ==
    (found # {} /\ pc \notin {"alert", "stopped"}) =>
        /\ tried = AllTransports
        /\ found \subseteq alerted

\* a ticker whose data was fetched had a failing transport and was alerted
C8_Witness ==
    /\ pc = "fetch" /\ tIdx = 2
    /\ 1 \in failed /\ 1 \in alerted
    /\ tried = AllTransports

\* C9: a check emits an event for its (ticker, strategy) pair exactly when
\* the computed signal is BUY or SELL and differs from the last signal
\* emitted for that same pair.
C9_PerPairTransitions ==
    lastCheck.strategy # None =>
        (lastCheck.emitted <=>
            /\ lastCheck.computed \in Actions
            /\ lastCheck.computed # lastCheck.pairBefore)

\* C10: no two stored records have the same (ticker, strategy) pair.
C10_UniqueKeys ==
    \A i \in 1..Len(store) : \A j \in 1..Len(store) :
        i # j => ~Matches(store[i], store[j].ticker, store[j].strategy)

\* C11: a backtest run with a parameter outside its declared [min, max] is
\* rejected before anything happens: no class attribute is set, no Backtest
\* is run, no statistics are produced.
C11_InvalidRejected ==
    \A r \in Runs :
        (/\ run[r].entry \in {"page", "bot"}
         /\ validate_params(ParamRanges, run[r].params) # {})
        => /\ ~run[r].configured
           /\ run[r].pc \notin {"backtest", "done"}
           /\ ~run[r].stats.returned

\* C12: a run that has evaluated its bars did so with the parameter values
\* it was given, whatever the other run did in between.
C12_OwnParameters ==
    \A r \in Runs : run[r].pc = "done" => run[r].used = run[r].params

C13_SinglePosition ==
    /\ Len(trades) <= 1
    /\ (filled.placed.entry = "BUY" /\ filled.before > 0)
          => filled.after <= filled.before
    /\ (filled.placed.entry = "SELL" /\ filled.before < 0)
          => filled.after >= filled.before

FlipStrategies == {"ShortTermTrendStrategy", "UltraFastEMAStrategy"}

Evaluated == 0..Len(decisions) - 1

\* the cross as the specification words it, on the class's two averages
UpCross(cls, s, t) ==
    LET ind == Indicators(cls, s) IN
    /\ t >= 1
    /\ Less(ind[2][t], ind[1][t])
    /\ LessEq(ind[1][t - 1], ind[2][t - 1])

DownCross(cls, s, t) ==
    LET ind == Indicators(cls, s) IN
    /\ t >= 1
    /\ Less(ind[1][t], ind[2][t])
    /\ LessEq(ind[2][t - 1], ind[1][t - 1])

\* C15: TrendFollowing and DualMovingAverageStrategy ask for BUY at bar t
\* exactly when fast[t] > slow[t] and fast[t-1] <= slow[t-1], for SELL
\* exactly when fast[t] < slow[t] and fast[t-1] >= slow[t-1], and for
\* nothing at every other bar.
C15_CrossoverRule ==
    strategy_class \in {"TrendFollowing", "DualMovingAverageStrategy"} =>
        \A t \in Evaluated :
            decisions[t + 1].action =
                IF UpCross(strategy_class, series, t) THEN "BUY"
                ELSE IF DownCross(strategy_class, series, t) THEN "SELL"
                ELSE "HOLD"

RsiBelow(s, t) ==
    LET a == StrategyAttrs("RSIStrategy") IN
    t >= 0 /\ Less(rolling_rsi(s, a.rsi_period, t), Value(a.rsi_lower))

RsiAbove(s, t) ==
    LET a == StrategyAttrs("RSIStrategy") IN
    t >= 0 /\ Less(Value(a.rsi_upper), rolling_rsi(s, a.rsi_period, t))

\* C16: RSIStrategy asks for BUY only at a bar where the RSI is below the
\* oversold level, was not below it one bar earlier, and no position is
\* open; for SELL only where the RSI is above the overbought level, was not
\* above it one bar earlier, and a position is open.
C16_RsiCrossesOnly ==
    strategy_class = "RSIStrategy" =>
        \A t \in Evaluated :
            /\ decisions[t + 1].action = "BUY" =>
                  /\ decisions[t + 1].position = 0
                  /\ RsiBelow(series, t) /\ ~RsiBelow(series, t - 1)
            /\ decisions[t + 1].action = "SELL" =>
                  /\ decisions[t + 1].position # 0
                  /\ RsiAbove(series, t) /\ ~RsiAbove(series, t - 1)

\* C17: whatever the strategy, nothing is asked for at a bar index below its
\* largest lookback less one.
C17_WarmUpHold ==
    strategy_class # None =>
        \A t \in Evaluated :
            t < Lookback(strategy_class) - 1
                => decisions[t + 1].action = "HOLD"

\* max High and min Low of the bars t-n .. t-1
PriorHigh(s, n, t) == MaxOver([k \in 0..t |-> High(s, k)], t - n, t - 1)
PriorLow(s, n, t) == MinOver([k \in 0..t |-> Low(s, k)], t - n, t - 1)

\* C18: BreakoutStrategy asks for BUY at bar t exactly when no position is
\* open and close[t] is above the highest High of bars t-N .. t-1, for SELL
\* exactly when a position is open and close[t] is below the lowest Low of
\* those bars; what it asks for at t is the same on the series cut off
\* after t.
C18_PriorWindow ==
    strategy_class = "BreakoutStrategy" =>
        \A t \in Evaluated :
            LET d == decisions[t + 1]
                n == StrategyAttrs("BreakoutStrategy").period
                full == t >= n
            IN /\ d.action = "BUY" <=>
                    /\ d.position = 0 /\ full
                    /\ Close(series, t) > PriorHigh(series, n, t)
               /\ d.action = "SELL" <=>
                    /\ d.position # 0 /\ full
                    /\ Close(series, t) < PriorLow(series, n, t)
               /\ t >= Start(strategy_class, series) =>
                    d.action = Decision(strategy_next(strategy_class,
                                   Truncate(series, t), t, d.position))

\* a breakout run on bars with wicks that bought and later sold
C18_Witness ==
    /\ strategy_class = "BreakoutStrategy"
    /\ series.wick = 1
    /\ \E t, u \in Evaluated :
          /\ t < u
          /\ decisions[t + 1].action = "BUY"
          /\ decisions[u + 1].action = "SELL"

\* rows a window needs before every value the detector reads for the class
\* is defined: the longer rolling mean, or the 14-row RSI after one diff
WarmUpRows(cls) ==
    IF HasAttr(cls, "short_ma") /\ HasAttr(cls, "long_ma")
    THEN IF cls.long_ma > cls.short_ma THEN cls.long_ma ELSE cls.short_ma
    ELSE 15

\* C19: a check_signal call on a window with fewer rows than the class's
\* indicators need, or with fewer than MinBars rows, computes HOLD, returns
\* no event and leaves last_signal as it was.
C19_ShortWindowHolds ==
    Len(calls) >= 1 =>
        LET c == calls[Len(calls)] IN
        (rows < WarmUpRows(StrategyClass(c.strategy)) \/ rows < MinBars)
            => /\ c.signal = "HOLD"
               /\ c.event = NoEvent
               /\ last_signal[c.strategy] = c.before

\* a detector on the 50/200 class was fed windows of MinBars rows, among
\* them one whose means cross upwards, and held
C19_Witness ==
    /\ \E d \in DetectorWindows :
          /\ d.n >= MinBars
          /\ d.n < WarmUpRows(StrategyClass("GoldenCrossStrategy"))
          /\ d.has_close
          /\ GT(d.short_last, d.long_last)
          /\ LE(d.short_prev, d.long_prev)
    /\ Len(calls) = MaxCalls
    /\ rows = MinBars
    /\ \A i \in 1..Len(calls) :
          /\ calls[i].strategy = "GoldenCrossStrategy"
          /\ calls[i].signal = "HOLD"
    /\ last_signal["GoldenCrossStrategy"] = None

\* C21: the status of every stored record is one of active, paused,
\* stopped, error, whatever MonitoringStorage operations were called.
C21_StatusInEnum ==
    \A i \in 1..Len(store) : store[i].status \in Statuses

Defective(cls, d) ==
    \/ ~d.has_close
    \/ /\ HasAttr(cls, "short_ma") /\ HasAttr(cls, "long_ma")
       /\ NaN \in {d.short_prev, d.short_last, d.long_prev, d.long_last}
    \/ /\ HasAttr(cls, "rsi_upper") /\ HasAttr(cls, "rsi_lower")
       /\ d.rsi = NaN

\* C23: a check_signal call of the monitor on a frame whose computation
\* raises or reads a NaN indicator computes HOLD, builds no event, leaves
\* last_signal as it was, and the cycle goes on with the next detector, the
\* alerts or the next ticker.
C23_DegradesToHold ==
    [][(/\ pc = "detect"
        /\ Defective(StrategyClass(StrategyNames[dIdx]), data)
        /\ pc' # "stopped")
       => /\ last_signal' = last_signal
          /\ lastCheck'.strategy = StrategyNames[dIdx]
          /\ lastCheck'.computed = "HOLD"
          /\ ~lastCheck'.emitted
          /\ signals'[StrategyNames[dIdx]] = NoEvent
          /\ pc' \in {"detect", "alert", "fetch", "sleep"}]_vars

\* the first detector, which had emitted BUY on an earlier frame, has just
\* held on a frame with a NaN mean, and the second detector is next
C23_Witness ==
    /\ pc = "detect" /\ dIdx = 2
    /\ data.has_close
    /\ Defective(StrategyClass(StrategyNames[1]), data)
    /\ lastCheck.ticker = Tickers[tIdx]
    /\ lastCheck.strategy = StrategyNames[1]
    /\ lastCheck.computed = "HOLD"
    /\ last_signal[StrategyNames[1]] = "BUY"

\* C24: every click on "Add to Monitoring" after a successful backtest
\* reaches storage.add_monitoring_config, so the store then holds a record
\* for the backtested pair (added now, or already there).
C24_ClickReachesAdd ==
    \A c \in clicked :
        /\ c.reached
        /\ FirstMatch(store, Tickers[1], StrategyNames[1]) # 0

\* last_signal of detector s as call k of its log left it
AfterCall(s, cs, k) == IF k < Len(cs) THEN cs[k + 1].before ELSE last_signal[s]

\* C25: for each detector, last_signal is never HOLD and changes only in a
\* call that returns an event, to that event's action; two events with no
\* event between them carry different actions, whatever calls lie between.
C25_EventsAlternate ==
    \A s \in DetectorClasses :
        LET cs == CallsOf(s) IN
        /\ last_signal[s] # "HOLD"
        /\ \A k \in 1..Len(cs) :
              AfterCall(s, cs, k) = IF cs[k].event = NoEvent THEN cs[k].before
                                    ELSE cs[k].event.action
        /\ \A j, k \in 1..Len(cs) :
              (/\ j < k
               /\ cs[j].event # NoEvent /\ cs[k].event # NoEvent
               /\ \A m \in (j + 1)..(k - 1) : cs[m].event = NoEvent)
              => cs[j].event.action # cs[k].event.action

\* one detector emitted three events, with a HOLD call and a short-history
\* call on the way
C25_Witness ==
    \E s \in DetectorClasses :
        LET cs == CallsOf(s) IN
        /\ Cardinality({k \in 1..Len(cs) : cs[k].event # NoEvent}) >= 3
        /\ \E k \in 2..Len(cs) : cs[k].signal = "HOLD" /\ cs[k].before # None
        /\ rows < MinBars

\* C26: once a termination signal has been delivered, whatever the monitor
\* was doing, no step checks a further ticker (attempted gains nothing) and
\* no step hands an alert to a transport (tried gains nothing).
C26_SignalStopsMonitor ==
    [][cancelRequested => (attempted' \subseteq attempted /\ tried' \subseteq tried)]_vars

\* the exchange suffix the ticker was given with, upper-cased; <<>> if none
GivenSuffix(t) ==
    IF endswith(upper(t), KS) THEN KS
    ELSE IF endswith(upper(t), KQ) THEN KQ
    ELSE <<>>

\* C30: normalizing a normalized ticker returns it unchanged, and a ticker
\* given with a .KS or .KQ suffix, in any letter case, normalizes to a ticker
\* that ends in that suffix.
C30_IdempotentKeepsSuffix ==
    /\ Len(normalized) >= 1 /\ GivenSuffix(raw_ticker) # <<>>
          => endswith(normalized[1], GivenSuffix(raw_ticker))
    /\ Len(normalized) = 2 => normalized[2] = normalized[1]

\* C29: a run_live_monitoring call made with at least one active record in
\* the store has performed its initial check and is monitoring; one made
\* with none has ended without a check and is not monitoring.
C29_StartsWhenWork ==
    live.outcome # "idle" =>
        IF live.active >= 1
        THEN live.outcome = "monitoring" /\ live.checks >= 1
        ELSE live.outcome # "monitoring" /\ live.checks = 0

\* C27: every record that add_monitoring_config added, and that nobody
\* removed since, is in the file, whatever other records the file's other
\* users added or changed meanwhile.
C27_NoLostAdd ==
    \A key \in added : FirstMatch(store, key[1], key[2]) # 0

\* C28: no step takes a record that is stopped in the file to active or
\* paused; a stopped record stays stopped until it is removed.
C28_StoppedAbsorbing ==
    [][\A i \in 1..Len(store) : \A j \in 1..Len(store') :
          (/\ store[i].status = "stopped"
           /\ KeyOf(store'[j]) = KeyOf(store[i]))
          => store'[j].status = "stopped"]_vars

====
